---- MODULE Spec2Model ----
(***************************************************************************)
(* The live chess session subsystem of the chat server: the socket         *)
(* handlers 'join', 'disconnect', 'chess invite', 'chess invite response'  *)
(* and 'chess move' of server.js, the chess logic functions they call, and *)
(* the chess_games table they write through db.createChessGame and         *)
(* db.updateChessGame.                                                     *)
(*                                                                         *)
(* A handler runs on the single-threaded event loop: everything up to its  *)
(* first await is one atomic step, and what follows the await is a second  *)
(* step that runs when the awaited query has finished.  Queries go through *)
(* a connection pool, so queries in flight finish in any order.            *)
(***************************************************************************)
EXTENDS Integers, Sequences, FiniteSets, TLC

VARIABLES
    activeUsers,  \* Map socketId -> username, as its entries in insertion order
    closed,       \* the sockets whose 'disconnect' has been handled
    chessGames,   \* Map gameId -> game state
    db,           \* the chess_games table: gameId -> row
    pending,      \* the queries in flight with the continuation awaiting each
    clock,        \* the number of timestamps read so far
    joins,        \* the number of 'join' events handled so far
    accepted,     \* per game, the number of moves accepted since creation
    invites,      \* the 'chess invite received' events delivered so far
    call,         \* a call of isValidMove: its arguments and what it returned, and
                  \* the game after makeMove if the move has then been made; or a
                  \* call of isPathClear: its arguments and where its loop stands
    sent,         \* the events emitted by the last step, in emission order
    last,         \* the last step: the event handled and its outcome
    running       \* whether the server process is alive

vars == <<activeUsers, closed, chessGames, db, pending, clock, joins, accepted, invites,
          call, sent, last, running>>

-----------------------------------------------------------------------------
(* Bounds of the model *)

MaxMoves == 8
MaxPending == 2
MaxJoins == 3

Sockets == {"s1", "s2", "s3"}
Usernames == {"alice", "bob", "carol"}
GameIds == {"g1", "g2"}

\* JavaScript's undefined (Map.get of a missing key, find without a match)
\* and null (an empty square, an unset column).
undefined == "undefined"
null == "null"

\* The moves the clients send, [from, to] pairs of [row, col] pairs: an
\* opening, and the moves of a game in which each queen takes the other king.
OpeningMoves ==
    { <<<<6, 4>>, <<5, 4>>>>,    \* white pawn e2-e3
      <<<<1, 4>>, <<2, 4>>>> }   \* black pawn e7-e6

MoveInputs ==
    OpeningMoves \cup
    { <<<<7, 3>>, <<3, 7>>>>,    \* white queen d1-h5
      <<<<6, 5>>, <<5, 5>>>>,    \* white pawn f2-f3
      <<<<3, 7>>, <<0, 4>>>>,    \* white queen h5xe8
      <<<<1, 5>>, <<3, 5>>>>,    \* black pawn f7-f5
      <<<<0, 3>>, <<4, 7>>>>,    \* black queen d8-h4
      <<<<4, 7>>, <<7, 4>>>> }   \* black queen h4xe1

-----------------------------------------------------------------------------
(* Chess game logic functions *)

WhitePieces == {"P", "R", "N", "B", "Q", "K"}
BlackPieces == {"p", "r", "n", "b", "q", "k"}

\* The colour test gone wrong: toUpperCase leaves the piece as it is, so
\* every piece compares equal to it and counts as white.
toUpperCaseKept(piece) == piece

toUpperCase(piece) ==
    CASE piece = "p" -> "P" [] piece = "r" -> "R" [] piece = "n" -> "N"
      [] piece = "b" -> "B" [] piece = "q" -> "Q" [] piece = "k" -> "K"
      [] OTHER -> piece

toLowerCase(piece) ==
    CASE piece = "P" -> "p" [] piece = "R" -> "r" [] piece = "N" -> "n"
      [] piece = "B" -> "b" [] piece = "Q" -> "q" [] piece = "K" -> "k"
      [] OTHER -> piece

\* Math.abs gone wrong: the difference is taken as it is.
absKept(x) == x

abs(x) == IF x < 0 THEN -x ELSE x

InitialRows ==
    << <<"r", "n", "b", "q", "k", "b", "n", "r">>,
       <<"p", "p", "p", "p", "p", "p", "p", "p">>,
       <<null, null, null, null, null, null, null, null>>,
       <<null, null, null, null, null, null, null, null>>,
       <<null, null, null, null, null, null, null, null>>,
       <<null, null, null, null, null, null, null, null>>,
       <<"P", "P", "P", "P", "P", "P", "P", "P">>,
       <<"R", "N", "B", "Q", "K", "B", "N", "R">> >>

InitialBoard == [r \in 0..7 |-> [c \in 0..7 |-> InitialRows[r + 1][c + 1]]]

createNewChessGame(whitePlayer, blackPlayer) ==
    [ whitePlayer |-> whitePlayer,
      blackPlayer |-> blackPlayer,
      currentTurn |-> "white",
      board       |-> InitialBoard,
      gameStatus  |-> "active",
      moveHistory |-> <<>> ]

\* The while loop of isPathClear from the square (currentRow, currentCol) on.
RECURSIVE PathLoop(_, _, _, _, _, _, _)
PathLoop(board, currentRow, currentCol, toRow, toCol, rowStep, colStep) ==
    IF currentRow # toRow \/ currentCol # toCol
    THEN IF board[currentRow][currentCol] # null
         THEN FALSE
         ELSE PathLoop(board, currentRow + rowStep, currentCol + colStep,
                       toRow, toCol, rowStep, colStep)
    ELSE TRUE

\* The path check gone wrong: every path counts as clear.
isPathClearSkipped(board, from, to) == TRUE

isPathClear(board, from, to) ==
    LET fromRow == from[1]
        fromCol == from[2]
        toRow   == to[1]
        toCol   == to[2]
        rowStep == IF toRow > fromRow THEN 1 ELSE IF toRow < fromRow THEN -1 ELSE 0
        colStep == IF toCol > fromCol THEN 1 ELSE IF toCol < fromCol THEN -1 ELSE 0
    IN  PathLoop(board, fromRow + rowStep, fromCol + colStep, toRow, toCol, rowStep, colStep)

\* The switch of isValidMove on the piece type.
PieceRule(board, piece, from, to) ==
    LET fromRow      == from[1]
        fromCol      == from[2]
        toRow        == to[1]
        toCol        == to[2]
        isWhitePiece == piece = toUpperCase(piece)
        targetPiece  == board[toRow][toCol]
        pieceType    == toLowerCase(piece)
        rowDiff      == abs(toRow - fromRow)
        colDiff      == abs(toCol - fromCol)
        direction    == IF isWhitePiece THEN -1 ELSE 1
        startRow     == IF isWhitePiece THEN 6 ELSE 1
    IN  CASE pieceType = "p" ->
               IF fromCol = toCol
               THEN \/ toRow = fromRow + direction /\ targetPiece = null
                    \/ fromRow = startRow /\ toRow = fromRow + 2 * direction /\ targetPiece = null
               ELSE colDiff = 1 /\ toRow = fromRow + direction /\ targetPiece # null
          [] pieceType = "r" ->
               (rowDiff = 0 \/ colDiff = 0) /\ isPathClear(board, from, to)
          [] pieceType = "n" ->
               (rowDiff = 2 /\ colDiff = 1) \/ (rowDiff = 1 /\ colDiff = 2)
          [] pieceType = "b" ->
               rowDiff = colDiff /\ isPathClear(board, from, to)
          [] pieceType = "q" ->
               ((rowDiff = 0 \/ colDiff = 0) \/ (rowDiff = colDiff)) /\ isPathClear(board, from, to)
          [] pieceType = "k" ->
               rowDiff <= 1 /\ colDiff <= 1
          [] OTHER -> FALSE

\* The validator gone wrong: a piece may capture a piece of its own colour.
isValidMoveOwnCapture(game, from, to) ==
    LET fromRow == from[1]
        fromCol == from[2]
        toRow   == to[1]
        toCol   == to[2]
    IN  IF \/ fromRow < 0 \/ fromRow > 7 \/ fromCol < 0 \/ fromCol > 7
           \/ toRow < 0 \/ toRow > 7 \/ toCol < 0 \/ toCol > 7
        THEN FALSE
        ELSE LET piece        == game.board[fromRow][fromCol]
                 isWhitePiece == piece = toUpperCase(piece)
                 targetPiece  == game.board[toRow][toCol]
             IN  IF piece = null THEN FALSE
                 ELSE IF \/ game.currentTurn = "white" /\ ~isWhitePiece
                         \/ game.currentTurn = "black" /\ isWhitePiece
                 THEN FALSE
                 ELSE PieceRule(game.board, piece, from, to)

\* The validator gone wrong: a piece may move whoever's turn it is.
isValidMoveAnyTurn(game, from, to) ==
    LET fromRow == from[1]
        fromCol == from[2]
        toRow   == to[1]
        toCol   == to[2]
    IN  IF \/ fromRow < 0 \/ fromRow > 7 \/ fromCol < 0 \/ fromCol > 7
           \/ toRow < 0 \/ toRow > 7 \/ toCol < 0 \/ toCol > 7
        THEN FALSE
        ELSE LET piece        == game.board[fromRow][fromCol]
                 isWhitePiece == piece = toUpperCase(piece)
                 targetPiece  == game.board[toRow][toCol]
             IN  IF piece = null THEN FALSE
                 ELSE IF /\ targetPiece # null
                         /\ isWhitePiece = (targetPiece = toUpperCase(targetPiece))
                 THEN FALSE
                 ELSE PieceRule(game.board, piece, from, to)

\* The validator gone wrong: the own-piece test lets through a move that
\* ends where it starts.
isValidMoveNullMove(game, from, to) ==
    LET fromRow == from[1]
        fromCol == from[2]
        toRow   == to[1]
        toCol   == to[2]
    IN  IF \/ fromRow < 0 \/ fromRow > 7 \/ fromCol < 0 \/ fromCol > 7
           \/ toRow < 0 \/ toRow > 7 \/ toCol < 0 \/ toCol > 7
        THEN FALSE
        ELSE LET piece        == game.board[fromRow][fromCol]
                 isWhitePiece == piece = toUpperCase(piece)
                 targetPiece  == game.board[toRow][toCol]
             IN  IF piece = null THEN FALSE
                 ELSE IF \/ game.currentTurn = "white" /\ ~isWhitePiece
                         \/ game.currentTurn = "black" /\ isWhitePiece
                 THEN FALSE
                 ELSE IF /\ targetPiece # null
                         /\ from # to
                         /\ isWhitePiece = (targetPiece = toUpperCase(targetPiece))
                 THEN FALSE
                 ELSE PieceRule(game.board, piece, from, to)

isValidMove(game, from, to) ==
    LET fromRow == from[1]
        fromCol == from[2]
        toRow   == to[1]
        toCol   == to[2]
    IN  IF \/ fromRow < 0 \/ fromRow > 7 \/ fromCol < 0 \/ fromCol > 7
           \/ toRow < 0 \/ toRow > 7 \/ toCol < 0 \/ toCol > 7
        THEN FALSE
        ELSE LET piece        == game.board[fromRow][fromCol]
                 isWhitePiece == piece = toUpperCase(piece)
                 targetPiece  == game.board[toRow][toCol]
             IN  IF piece = null THEN FALSE
                 ELSE IF \/ game.currentTurn = "white" /\ ~isWhitePiece
                         \/ game.currentTurn = "black" /\ isWhitePiece
                 THEN FALSE
                 ELSE IF /\ targetPiece # null
                         /\ isWhitePiece = (targetPiece = toUpperCase(targetPiece))
                 THEN FALSE
                 ELSE PieceRule(game.board, piece, from, to)

\* makeMove gone wrong: the record replaces the history instead of joining it.
makeMoveHistoryReplaced(game, from, to, now) ==
    LET piece         == game.board[from[1]][from[2]]
        capturedPiece == game.board[to[1]][to[2]]
    IN  [game EXCEPT
           !.board = [[game.board EXCEPT ![to[1]][to[2]] = piece]
                         EXCEPT ![from[1]][from[2]] = null],
           !.moveHistory = << [ from          |-> from,
                                to            |-> to,
                                piece         |-> piece,
                                capturedPiece |-> capturedPiece,
                                timestamp     |-> now ] >>]

\* makeMove: the board and the history after the move; now is the timestamp read.
\* makeMove gone wrong: the from square keeps its piece.
makeMoveSourceKept(game, from, to, now) ==
    LET piece         == game.board[from[1]][from[2]]
        capturedPiece == game.board[to[1]][to[2]]
    IN  [game EXCEPT
           !.board = [game.board EXCEPT ![to[1]][to[2]] = piece],
           !.moveHistory = Append(@, [ from          |-> from,
                                       to            |-> to,
                                       piece         |-> piece,
                                       capturedPiece |-> capturedPiece,
                                       timestamp     |-> now ])]

\* makeMove gone wrong: a pawn that moves becomes a queen.
makeMovePromoting(game, from, to, now) ==
    LET piece         == game.board[from[1]][from[2]]
        capturedPiece == game.board[to[1]][to[2]]
        placed        == IF piece = "P" THEN "Q" ELSE IF piece = "p" THEN "q" ELSE piece
    IN  [game EXCEPT
           !.board = [game.board EXCEPT ![to[1]][to[2]] = placed,
                                        ![from[1]][from[2]] = null],
           !.moveHistory = Append(@, [ from          |-> from,
                                       to            |-> to,
                                       piece         |-> piece,
                                       capturedPiece |-> capturedPiece,
                                       timestamp     |-> now ])]

makeMove(game, from, to, now) ==
    LET fromRow       == from[1]
        fromCol       == from[2]
        toRow         == to[1]
        toCol         == to[2]
        piece         == game.board[fromRow][fromCol]
        capturedPiece == game.board[toRow][toCol]
        board1        == [game.board EXCEPT ![toRow][toCol] = piece]
        board2        == [board1 EXCEPT ![fromRow][fromCol] = null]
    IN  [game EXCEPT
           !.board = board2,
           !.moveHistory = Append(@, [ from          |-> from,
                                       to            |-> to,
                                       piece         |-> piece,
                                       capturedPiece |-> capturedPiece,
                                       timestamp     |-> now ])]

hasPiece(board, piece) == \E row \in 0..7 : \E col \in 0..7 : board[row][col] = piece

\* checkGameEnd gone wrong: with both kings on the board white has won.
checkGameEndStatusEager(game) ==
    IF ~hasPiece(game.board, "K") THEN "black_wins" ELSE "white_wins"

\* checkGameEnd: the status it leaves in the game.
checkGameEndStatus(game) ==
    IF ~hasPiece(game.board, "K") THEN "black_wins"
    ELSE IF ~hasPiece(game.board, "k") THEN "white_wins"
    ELSE game.gameStatus

\* checkGameEnd: the events it emits to every socket.
checkGameEndEvents(game, gameId) ==
    IF ~hasPiece(game.board, "K")
    THEN << [type |-> "chess game ended", to |-> "all", gameId |-> gameId,
             winner |-> game.blackPlayer, reason |-> "checkmate"] >>
    ELSE IF ~hasPiece(game.board, "k")
    THEN << [type |-> "chess game ended", to |-> "all", gameId |-> gameId,
             winner |-> game.whitePlayer, reason |-> "checkmate"] >>
    ELSE <<>>

-----------------------------------------------------------------------------
(* The activeUsers Map, as the sequence of its entries in insertion order *)

mapHas(m, id) == \E i \in 1..Len(m) : m[i].id = id

\* The lookup gone wrong: a socket that has not joined is named by its id.
mapGetOrSocketId(m, id) ==
    IF \E i \in 1..Len(m) : m[i].id = id
    THEN m[CHOOSE i \in 1..Len(m) : m[i].id = id].username
    ELSE id

mapGet(m, id) ==
    IF mapHas(m, id)
    THEN m[CHOOSE i \in 1..Len(m) : m[i].id = id].username
    ELSE undefined

\* Map.set keeps the position of a key that is present and appends a new key.
mapSet(m, id, username) ==
    IF mapHas(m, id)
    THEN [i \in 1..Len(m) |-> IF m[i].id = id THEN [id |-> id, username |-> username] ELSE m[i]]
    ELSE Append(m, [id |-> id, username |-> username])

mapDelete(m, id) == SelectSeq(m, LAMBDA e : e.id # id)

\* Array.from(activeUsers.entries()).find(([id, u]) => u === username)?.[0]
findSocketId(m, username) ==
    IF \E i \in 1..Len(m) : m[i].username = username
    THEN LET first == CHOOSE i \in 1..Len(m) :
                         /\ m[i].username = username
                         /\ \A j \in 1..(i - 1) : m[j].username # username
         IN  m[first].id
    ELSE undefined

\* The emit gone wrong: io.to(room).emit(...), which reaches the sender too.
socketToIncludingSender(socket, room, event) == << event >>

\* socket.to(room).emit(...): the sender itself is left out of the room.
socketTo(socket, room, event) == IF room = socket THEN <<>> ELSE << event >>

RemoveAt(seq, i) == [j \in 1..(Len(seq) - 1) |-> IF j < i THEN seq[j] ELSE seq[j + 1]]

-----------------------------------------------------------------------------
(* The chess_games table *)

\* The set gone wrong: the new entry replaces every entry there was.
putAlone(m, key, value) == [k \in {key} |-> value]

\* A Map or a table with the entry key -> value added or replaced.
put(m, key, value) ==
    [k \in DOMAIN m \cup {key} |-> IF k = key THEN value ELSE m[k]]

\* INSERT INTO chess_games (game_id, white_player, black_player, board_state):
\* the other columns take the defaults of the CREATE TABLE.
InsertedRow(whitePlayer, blackPlayer, boardState) ==
    [ white_player |-> whitePlayer,
      black_player |-> blackPlayer,
      current_turn |-> "white",
      board_state  |-> boardState,
      game_status  |-> "active",
      move_history |-> <<>>,
      winner       |-> null ]

\* The INSERT gone wrong: game_id without its UNIQUE constraint.
insertSucceedsNoUnique(table, gameId, up) == up

\* The INSERT succeeds only if the database is up and no row has the game_id
\* (game_id is UNIQUE).
insertSucceeds(table, gameId, up) == up /\ gameId \notin DOMAIN table

\* UPDATE chess_games SET ... WHERE game_id = $6
updateRows(table, gameId, gameData) ==
    IF gameId \notin DOMAIN table THEN table
    ELSE [table EXCEPT ![gameId] =
             [@ EXCEPT !.current_turn = gameData.currentTurn,
                       !.board_state  = gameData.boardState,
                       !.game_status  = gameData.gameStatus,
                       !.move_history = gameData.moveHistory,
                       !.winner       = gameData.winner]]

-----------------------------------------------------------------------------
(* The state after the server has started *)

\* No call of isValidMove or makeMove made apart from the handlers.
NoCall ==
    [ game     |-> createNewChessGame(undefined, undefined),
      from     |-> <<0, 0>>,
      to       |-> <<0, 0>>,
      returned |-> FALSE,
      result   |-> FALSE,
      made     |-> FALSE,
      after    |-> createNewChessGame(undefined, undefined) ]

Init ==
    /\ activeUsers = <<>>
    /\ closed = {}
    /\ chessGames = <<>>
    /\ db = <<>>
    /\ pending = <<>>
    /\ clock = 0
    /\ joins = 0
    /\ accepted = [g \in GameIds |-> 0]
    /\ invites = {}
    /\ call = NoCall
    /\ running = TRUE
    /\ sent = <<>>
    /\ last = [op |-> "start", socket |-> undefined, gameId |-> undefined, result |-> "ok"]

-----------------------------------------------------------------------------
(* socket.on('join') and socket.on('disconnect') *)

\* ok: whether the user lookup of the handler succeeds; the entry is set after it.
Join(socket, username, ok) ==
    /\ running
    /\ socket \notin closed
    /\ joins < MaxJoins
    /\ joins' = joins + 1
    /\ activeUsers' = IF ok THEN mapSet(activeUsers, socket, username) ELSE activeUsers
    /\ sent' = IF ok
               THEN << [type |-> "user joined", to |-> "others", username |-> username] >>
               ELSE << [type |-> "error", to |-> socket] >>
    /\ last' = [op |-> "join", socket |-> socket, gameId |-> undefined,
                result |-> IF ok THEN "ok" ELSE "error"]
    /\ UNCHANGED <<closed, chessGames, db, pending, clock, accepted, invites,
                   call, running>>

\* The disconnect gone wrong: the games of the user who left are resigned.
gamesAfterDisconnectResigned(games, username) ==
    [g \in DOMAIN games |->
        IF username = games[g].whitePlayer
        THEN [games[g] EXCEPT !.gameStatus = "black_wins"]
        ELSE IF username = games[g].blackPlayer
        THEN [games[g] EXCEPT !.gameStatus = "white_wins"]
        ELSE games[g]]

\* The handler names chessGames nowhere: the games stay as they are.
gamesAfterDisconnect(games, username) == games

Disconnect(socket) ==
    /\ running
    /\ socket \notin closed
    /\ closed' = closed \cup {socket}
    /\ activeUsers' = mapDelete(activeUsers, socket)
    /\ chessGames' = gamesAfterDisconnect(chessGames, mapGet(activeUsers, socket))
    /\ sent' = IF mapGet(activeUsers, socket) # undefined
               THEN << [type |-> "user left", to |-> "others",
                        username |-> mapGet(activeUsers, socket)] >>
               ELSE <<>>
    /\ last' = [op |-> "disconnect", socket |-> socket, gameId |-> undefined, result |-> "ok"]
    /\ UNCHANGED <<db, pending, clock, joins, accepted, invites, call, running>>

-----------------------------------------------------------------------------
(* socket.on('chess invite') *)

ChessInvite(socket, targetUsername, gameId) ==
    LET inviterUsername == mapGet(activeUsers, socket)
        targetSocketId  == findSocketId(activeUsers, targetUsername)
    IN  /\ running
        /\ socket \notin closed
        /\ sent' = IF targetSocketId # undefined /\ inviterUsername # undefined
                   THEN socketTo(socket, targetSocketId,
                                 [type |-> "chess invite received", to |-> targetSocketId,
                                  from |-> inviterUsername, gameId |-> gameId])
                   ELSE <<>>
        /\ last' = [op |-> "chess invite", socket |-> socket, gameId |-> gameId,
                    result |-> IF targetSocketId # undefined /\ inviterUsername # undefined
                               THEN "emitted" ELSE "dropped"]
        /\ invites' = IF sent' # <<>>
                      THEN invites \cup {[gameId |-> gameId, from |-> inviterUsername,
                                           to |-> targetUsername]}
                      ELSE invites
        /\ UNCHANGED <<activeUsers, closed, chessGames, db, pending, clock, joins,
                       accepted, call, running>>

-----------------------------------------------------------------------------
(* socket.on('chess invite response') *)

ChessInviteResponse(socket, inviterUsername, gameId, isAccepted) ==
    LET responderUsername == mapGet(activeUsers, socket)
        inviterSocketId   == findSocketId(activeUsers, inviterUsername)
        gameState         == createNewChessGame(inviterUsername, responderUsername)
    IN  /\ running
        /\ socket \notin closed
        /\ IF isAccepted /\ responderUsername # undefined /\ inviterSocketId # undefined
           THEN \* await db.createChessGame(...)
                /\ Len(pending) < MaxPending
                /\ pending' = Append(pending,
                       [ kind            |-> "createChessGame",
                         gameId          |-> gameId,
                         whitePlayer     |-> inviterUsername,
                         blackPlayer     |-> responderUsername,
                         boardState      |-> gameState.board,
                         gameState       |-> gameState,
                         socket          |-> socket,
                         inviterSocketId |-> inviterSocketId ])
                /\ sent' = <<>>
                /\ last' = [op |-> "chess invite response", socket |-> socket,
                            gameId |-> gameId, result |-> "accepted"]
           ELSE /\ pending' = pending
                /\ sent' = IF inviterSocketId # undefined
                           THEN socketTo(socket, inviterSocketId,
                                         [type |-> "chess invite declined",
                                          to |-> inviterSocketId,
                                          from |-> responderUsername])
                           ELSE <<>>
                /\ last' = [op |-> "chess invite response", socket |-> socket,
                            gameId |-> gameId,
                            result |-> IF inviterSocketId # undefined
                                       THEN "declined" ELSE "dropped"]
        /\ UNCHANGED <<activeUsers, closed, chessGames, db, clock, joins, accepted, invites,
                       call, running>>

\* The events of a game that has been created: 'chess game started' to the
\* responder and to the inviter, and the system message to everyone if
\* db.saveMessage has saved it.
gameStartedEvents(ok, saved, p) ==
    IF ok
    THEN << [type |-> "chess game started", to |-> p.socket,
             gameId |-> p.gameId, gameState |-> p.gameState],
            [type |-> "chess game started", to |-> p.inviterSocketId,
             gameId |-> p.gameId, gameState |-> p.gameState] >>
         \o
         (IF saved
          THEN << [type |-> "chess game message", to |-> "all",
                   whitePlayer |-> p.whitePlayer, blackPlayer |-> p.blackPlayer] >>
          ELSE <<>>)
    ELSE <<>>

\* The handler after await db.createChessGame: up is whether the database
\* answers the INSERT, saved whether db.saveMessage then saves the system
\* message.  What follows await db.saveMessage reads and writes none of the
\* state, so it is taken in the same step.
CreateChessGameDone(i, up, saved) ==
    /\ running
    /\ i \in 1..Len(pending)
    /\ pending[i].kind = "createChessGame"
    /\ LET p  == pending[i]
           ok == insertSucceeds(db, p.gameId, up)
       IN  /\ db' = IF ok
                    THEN put(db, p.gameId,
                             InsertedRow(p.whitePlayer, p.blackPlayer, p.boardState))
                    ELSE db
           /\ chessGames' = IF ok THEN put(chessGames, p.gameId, p.gameState)
                            ELSE chessGames
           /\ sent' = gameStartedEvents(ok, saved, p)
           /\ last' = [op |-> "createChessGame done", socket |-> p.socket,
                       gameId |-> p.gameId, result |-> IF ok THEN "ok" ELSE "error"]
    /\ pending' = RemoveAt(pending, i)
    /\ UNCHANGED <<activeUsers, closed, clock, joins, accepted, invites, call, running>>

-----------------------------------------------------------------------------
(* socket.on('chess move') *)

\* The lookup gone wrong: the game is read back from its durable row.
currentGameFromRow(games, gameId) ==
    [games[gameId] EXCEPT !.currentTurn = db[gameId].current_turn,
                          !.board       = db[gameId].board_state,
                          !.gameStatus  = db[gameId].game_status,
                          !.moveHistory = db[gameId].move_history]

\* const game = chessGames.get(data.gameId)
currentGame(games, gameId) == games[gameId]

\* The turn check gone wrong: either participant passes, whoever is to move.
isPlayersTurnEitherPlayer(game, playerUsername) ==
    \/ game.whitePlayer = playerUsername
    \/ game.blackPlayer = playerUsername

\* Validate it's the player's turn
isPlayersTurn(game, playerUsername) ==
    \/ game.currentTurn = "white" /\ game.whitePlayer = playerUsername
    \/ game.currentTurn = "black" /\ game.blackPlayer = playerUsername

\* The switch gone wrong: the turn stays with the mover.
switchTurnKept(currentTurn) == currentTurn

\* Switch turns
switchTurn(currentTurn) == IF currentTurn = "white" THEN "black" ELSE "white"

\* The branch the handler takes for an event.
moveResult(games, gameId, playerUsername, from, to) ==
    IF gameId \notin DOMAIN games \/ playerUsername = undefined THEN "no-game-or-player"
    ELSE IF ~isPlayersTurn(currentGame(games, gameId), playerUsername) THEN "not-your-turn"
    ELSE IF ~isValidMove(currentGame(games, gameId), from, to) THEN "illegal-move"
    ELSE "applied"

\* makeMove and the switch of turns.
applyMove(game, from, to, now) ==
    [makeMove(game, from, to, now) EXCEPT !.currentTurn = switchTurn(game.currentTurn)]

\* The argument of db.updateChessGame; JSON.stringify inside it copies the
\* board and the history as they are when the call is made.  game.winner is
\* never set, and the driver stores undefined as NULL.
updateData(game) ==
    [ currentTurn |-> game.currentTurn,
      boardState  |-> game.board,
      gameStatus  |-> game.gameStatus,
      moveHistory |-> game.moveHistory,
      winner      |-> null ]

\* The rejection gone wrong: the sender is told why the move was dropped.
rejectionEventsReplied(socket, result) ==
    << [type |-> "chess move rejected", to |-> socket, reason |-> result] >>

\* The three early returns of the handler emit nothing.
rejectionEvents(socket, result) == <<>>

ChessMove(socket, gameId, from, to) ==
    LET game           == currentGame(chessGames, gameId)
        playerUsername == mapGet(activeUsers, socket)
        result         == moveResult(chessGames, gameId, playerUsername, from, to)
        moved          == applyMove(game, from, to, clock)
    IN  /\ running
        /\ socket \notin closed
        /\ IF result = "applied"
           THEN /\ clock < MaxMoves
                /\ Len(pending) < MaxPending
                /\ chessGames' = [chessGames EXCEPT ![gameId] = moved]
                /\ clock' = clock + 1
                /\ accepted' = [accepted EXCEPT ![gameId] = @ + 1]
                \* await db.updateChessGame(...)
                /\ pending' = Append(pending,
                       [ kind     |-> "updateChessGame",
                         gameId   |-> gameId,
                         socket   |-> socket,
                         gameData |-> updateData(moved) ])
           ELSE UNCHANGED <<chessGames, clock, accepted, pending>>
        /\ sent' = IF result = "applied" THEN <<>> ELSE rejectionEvents(socket, result)
        /\ last' = [op |-> "chess move", socket |-> socket, gameId |-> gameId,
                    result |-> result]
        /\ UNCHANGED <<activeUsers, closed, db, joins, invites, call, running>>

\* The notification gone wrong: it is sent whether or not the update threw.
moveMadeEventsUnguarded(ok, game, gameId, users) ==
    LET whiteSocketId == findSocketId(users, game.whitePlayer)
        blackSocketId == findSocketId(users, game.blackPlayer)
    IN  (IF whiteSocketId # undefined
         THEN << [type |-> "chess move made", to |-> whiteSocketId,
                  gameId |-> gameId, gameState |-> game] >>
         ELSE <<>>)
        \o
        (IF blackSocketId # undefined
         THEN << [type |-> "chess move made", to |-> blackSocketId,
                  gameId |-> gameId, gameState |-> game] >>
         ELSE <<>>)

\* The catch gone wrong: the failure of the update is reported to the players.
moveMadeEventsErrorSurfaced(ok, game, gameId, users) ==
    IF ok
    THEN moveMadeEventsUnguarded(ok, game, gameId, users)
    ELSE << [type |-> "chess move failed", to |-> findSocketId(users, game.whitePlayer),
             gameId |-> gameId],
            [type |-> "chess move failed", to |-> findSocketId(users, game.blackPlayer),
             gameId |-> gameId] >>

\* Notify both players: the state sent is the game as it is when the events
\* are emitted.
moveMadeEvents(ok, game, gameId, users) ==
    LET whiteSocketId == findSocketId(users, game.whitePlayer)
        blackSocketId == findSocketId(users, game.blackPlayer)
    IN  IF ok
        THEN (IF whiteSocketId # undefined
              THEN << [type |-> "chess move made", to |-> whiteSocketId,
                       gameId |-> gameId, gameState |-> game] >>
              ELSE <<>>)
             \o
             (IF blackSocketId # undefined
              THEN << [type |-> "chess move made", to |-> blackSocketId,
                       gameId |-> gameId, gameState |-> game] >>
              ELSE <<>>)
        ELSE <<>>

\* The status of the game after the handler's try block: checkGameEnd runs
\* only if the update did not throw.
statusAfterUpdate(ok, game) == IF ok THEN checkGameEndStatus(game) ELSE game.gameStatus

\* The handler after await db.updateChessGame: ok is whether the UPDATE
\* succeeded.  The query changes the row and the handler resumes in one step.
UpdateChessGameDone(i, ok) ==
    /\ running
    /\ i \in 1..Len(pending)
    /\ pending[i].kind = "updateChessGame"
    /\ LET p      == pending[i]
           game   == chessGames[p.gameId]
           events == moveMadeEvents(ok, game, p.gameId, activeUsers)
       IN  /\ db' = IF ok THEN updateRows(db, p.gameId, p.gameData) ELSE db
           /\ chessGames' = [chessGames EXCEPT
                               ![p.gameId].gameStatus = statusAfterUpdate(ok, game)]
           /\ sent' = events \o (IF ok THEN checkGameEndEvents(game, p.gameId) ELSE <<>>)
           /\ last' = [op |-> "updateChessGame done", socket |-> p.socket,
                       gameId |-> p.gameId, result |-> IF ok THEN "ok" ELSE "error"]
    /\ pending' = RemoveAt(pending, i)
    /\ UNCHANGED <<activeUsers, closed, clock, joins, accepted, invites, call, running>>

-----------------------------------------------------------------------------
(* Events whose payload is not what the handlers expect.  No handler       *)
(* checks its payload, and the server installs no 'uncaughtException' or   *)
(* 'unhandledRejection' listener.                                          *)

\* The from of a 'chess move' that is not a pair of integers: left out of the
\* payload, a string such as "e2", or an array of one number such as [6].
MalformedSquares == {"missing", "string", "short array"}

\* isValidMove on such a from.  const [fromRow, fromCol] = from throws on
\* undefined.  The letters of a string pass the bounds test, every comparison
\* with NaN being false, and game.board["e"]["2"] throws as game.board["e"]
\* is undefined.  For [6] game.board[6][undefined] is undefined, and the
\* function returns false at if (!piece).
isValidMoveMalformed(from) ==
    IF from \in {"missing", "string"} THEN "throws" ELSE "false"

\* socket.on('chess move') with such a from.  The handler is async and calls
\* isValidMove before its try block: the exception rejects the promise that
\* the handler returns, which nobody holds.  throwMode: whether the runtime
\* ends the process on an unhandled rejection (the default from Node 15 on)
\* or only warns.
ChessMoveMalformed(socket, gameId, from, throwMode) ==
    LET playerUsername == mapGet(activeUsers, socket)
        result ==
            IF gameId \notin DOMAIN chessGames \/ playerUsername = undefined
            THEN "no-game-or-player"
            ELSE IF ~isPlayersTurn(currentGame(chessGames, gameId), playerUsername)
            THEN "not-your-turn"
            ELSE IF isValidMoveMalformed(from) = "throws" THEN "threw"
            ELSE "illegal-move"
    IN  /\ running
        /\ socket \notin closed
        /\ running' = ~(result = "threw" /\ throwMode)
        /\ sent' = <<>>
        /\ last' = [op |-> "chess move", socket |-> socket, gameId |-> gameId,
                    result |-> result]
        /\ UNCHANGED <<activeUsers, closed, chessGames, db, pending, clock, joins,
                       accepted, invites, call>>

\* socket.on('chess invite') emitted without a payload: data is undefined.
\* The callback of find reads data.targetUsername for the first entry of
\* activeUsers and throws; with no entry it is never called and the handler
\* returns.  The handler is synchronous, so the exception is uncaught and
\* ends the process.
ChessInviteMalformed(socket) ==
    /\ running
    /\ socket \notin closed
    /\ running' = (Len(activeUsers) = 0)
    /\ sent' = <<>>
    /\ last' = [op |-> "chess invite", socket |-> socket, gameId |-> undefined,
                result |-> IF Len(activeUsers) = 0 THEN "dropped" ELSE "threw"]
    /\ UNCHANGED <<activeUsers, closed, chessGames, db, pending, clock, joins,
                   accepted, invites, call>>

-----------------------------------------------------------------------------

Next ==
    \/ \E socket \in Sockets, username \in Usernames, ok \in BOOLEAN :
          Join(socket, username, ok)
    \/ \E socket \in Sockets : Disconnect(socket)
    \/ \E socket \in Sockets, targetUsername \in Usernames, gameId \in GameIds :
          ChessInvite(socket, targetUsername, gameId)
    \/ \E socket \in Sockets, inviterUsername \in Usernames, gameId \in GameIds,
          isAccepted \in BOOLEAN :
          ChessInviteResponse(socket, inviterUsername, gameId, isAccepted)
    \/ \E i \in 1..MaxPending, up \in BOOLEAN, saved \in BOOLEAN :
          CreateChessGameDone(i, up, saved)
    \/ \E socket \in Sockets, gameId \in GameIds, move \in OpeningMoves :
          ChessMove(socket, gameId, move[1], move[2])
    \/ \E i \in 1..MaxPending, ok \in BOOLEAN : UpdateChessGameDone(i, ok)
    \/ \E socket \in Sockets, gameId \in GameIds, from \in MalformedSquares,
          throwMode \in BOOLEAN :
          ChessMoveMalformed(socket, gameId, from, throwMode)
    \/ \E socket \in Sockets : ChessInviteMalformed(socket)

Spec == Init /\ [][Next]_vars

-----------------------------------------------------------------------------
(* Play: the server once alice on s1 has invited bob on s2 to game g1, bob  *)
(* has accepted, and the game has been inserted and registered.  From      *)
(* there on the clients send moves of game g1.                             *)

\* The pending creation of game g1 that Play starts after.
PlayCreation ==
    [ kind            |-> "createChessGame",
      gameId          |-> "g1",
      whitePlayer     |-> "alice",
      blackPlayer     |-> "bob",
      boardState      |-> InitialBoard,
      gameState       |-> createNewChessGame("alice", "bob"),
      socket          |-> "s2",
      inviterSocketId |-> "s1" ]

InitPlay ==
    /\ activeUsers = << [id |-> "s1", username |-> "alice"],
                        [id |-> "s2", username |-> "bob"] >>
    /\ closed = {}
    /\ chessGames = put(<<>>, "g1", createNewChessGame("alice", "bob"))
    /\ db = put(<<>>, "g1", InsertedRow("alice", "bob", InitialBoard))
    /\ pending = <<>>
    /\ clock = 0
    /\ joins = 2
    /\ accepted = [g \in GameIds |-> 0]
    /\ invites = {}
    /\ call = NoCall
    /\ running = TRUE
    /\ sent = gameStartedEvents(TRUE, TRUE, PlayCreation)
    /\ last = [op |-> "createChessGame done", socket |-> "s2", gameId |-> "g1",
               result |-> "ok"]

NextPlay ==
    \/ \E socket \in Sockets, move \in MoveInputs :
          ChessMove(socket, "g1", move[1], move[2])
    \/ \E i \in 1..MaxPending, ok \in BOOLEAN : UpdateChessGameDone(i, ok)

SpecPlay == InitPlay /\ [][NextPlay]_vars

\* Sessions: the same start, with the clients joining and disconnecting
\* while the opening is played.
NextSessions ==
    \/ \E socket \in Sockets, username \in Usernames, ok \in BOOLEAN :
          Join(socket, username, ok)
    \/ \E socket \in Sockets : Disconnect(socket)
    \/ \E socket \in Sockets, gameId \in GameIds, move \in OpeningMoves :
          ChessMove(socket, gameId, move[1], move[2])
    \/ \E i \in 1..MaxPending, ok \in BOOLEAN : UpdateChessGameDone(i, ok)

SpecSessions == InitPlay /\ [][NextSessions]_vars

-----------------------------------------------------------------------------
(* Lobby: the server once alice has joined on s1 and bob on s2, with no    *)
(* game yet.  The clients answer invitations to game g1 and play its       *)
(* opening.                                                                *)

InitLobby ==
    /\ activeUsers = << [id |-> "s1", username |-> "alice"],
                        [id |-> "s2", username |-> "bob"] >>
    /\ closed = {}
    /\ chessGames = <<>>
    /\ db = <<>>
    /\ pending = <<>>
    /\ clock = 0
    /\ joins = 2
    /\ accepted = [g \in GameIds |-> 0]
    /\ invites = {}
    /\ call = NoCall
    /\ running = TRUE
    /\ sent = << [type |-> "user joined", to |-> "others", username |-> "bob"] >>
    /\ last = [op |-> "join", socket |-> "s2", gameId |-> undefined, result |-> "ok"]

NextLobby ==
    \/ \E socket \in Sockets, inviterUsername \in Usernames, isAccepted \in BOOLEAN :
          ChessInviteResponse(socket, inviterUsername, "g1", isAccepted)
    \/ \E i \in 1..MaxPending, up \in BOOLEAN, saved \in BOOLEAN :
          CreateChessGameDone(i, up, saved)
    \/ \E socket \in Sockets, move \in OpeningMoves :
          ChessMove(socket, "g1", move[1], move[2])
    \/ \E i \in 1..MaxPending, ok \in BOOLEAN : UpdateChessGameDone(i, ok)

SpecLobby == InitLobby /\ [][NextLobby]_vars

-----------------------------------------------------------------------------
(* Durable: Play with a database that never fails. *)

NextDurable ==
    \/ \E socket \in Sockets, move \in MoveInputs :
          ChessMove(socket, "g1", move[1], move[2])
    \/ \E i \in 1..MaxPending : UpdateChessGameDone(i, TRUE)

SpecDurable == InitPlay /\ [][NextDurable]_vars

-----------------------------------------------------------------------------
(* Invitations: Lobby, with the clients sending invitations to game g1 and  *)
(* answering them.  Socket s3 never joins and carol has no channel.        *)

NextInvitations ==
    \/ \E socket \in Sockets, targetUsername \in Usernames :
          ChessInvite(socket, targetUsername, "g1")
    \/ \E socket \in Sockets, inviterUsername \in Usernames, isAccepted \in BOOLEAN :
          ChessInviteResponse(socket, inviterUsername, "g1", isAccepted)
    \/ \E i \in 1..MaxPending, up \in BOOLEAN, saved \in BOOLEAN :
          CreateChessGameDone(i, up, saved)

SpecInvitations == InitLobby /\ [][NextInvitations]_vars

-----------------------------------------------------------------------------
(* Ending: the server once game g1 has been played up to 1.e3 f5 2.Qh5 e6,  *)
(* each move written and broadcast, so that 3.Qxe8 takes the black king.    *)
(* From there on the clients send moves of g1 and disconnect, alice joins   *)
(* again on s3 and invites bob to game g2, bob answers, and the clients     *)
(* send the first move of g2.  The system message is always saved.         *)

EndingMoves ==
    { <<<<6, 4>>, <<5, 4>>>>,    \* white pawn e2-e3
      <<<<1, 5>>, <<3, 5>>>>,    \* black pawn f7-f5
      <<<<7, 3>>, <<3, 7>>>>,    \* white queen d1-h5
      <<<<1, 4>>, <<2, 4>>>>,    \* black pawn e7-e6
      <<<<3, 7>>, <<0, 4>>>> }   \* white queen h5xe8

EndingOpening ==
    << <<<<6, 4>>, <<5, 4>>>>, <<<<1, 5>>, <<3, 5>>>>,
       <<<<7, 3>>, <<3, 7>>>>, <<<<1, 4>>, <<2, 4>>>> >>

\* Game g1 after the first n moves of the opening, the k-th made at time k - 1.
RECURSIVE played(_)
played(n) ==
    IF n = 0
    THEN createNewChessGame("alice", "bob")
    ELSE applyMove(played(n - 1), EndingOpening[n][1], EndingOpening[n][2], n - 1)

InitEnding ==
    /\ activeUsers = << [id |-> "s1", username |-> "alice"],
                        [id |-> "s2", username |-> "bob"] >>
    /\ closed = {}
    /\ chessGames = put(<<>>, "g1", played(Len(EndingOpening)))
    /\ db = updateRows(put(<<>>, "g1", InsertedRow("alice", "bob", InitialBoard)),
                       "g1", updateData(played(Len(EndingOpening))))
    /\ pending = <<>>
    /\ clock = Len(EndingOpening)
    /\ joins = 2
    /\ accepted = [g \in GameIds |-> IF g = "g1" THEN Len(EndingOpening) ELSE 0]
    /\ invites = {}
    /\ call = NoCall
    /\ running = TRUE
    /\ sent = moveMadeEvents(TRUE, played(Len(EndingOpening)), "g1", activeUsers)
    /\ last = [op |-> "updateChessGame done", socket |-> "s2", gameId |-> "g1",
               result |-> "ok"]

NextEnding ==
    \/ Join("s3", "alice", TRUE)
    \/ \E socket \in Sockets : Disconnect(socket)
    \/ ChessInvite("s1", "bob", "g2")
    \/ \E isAccepted \in BOOLEAN : ChessInviteResponse("s2", "alice", "g2", isAccepted)
    \/ \E i \in 1..MaxPending, up \in BOOLEAN : CreateChessGameDone(i, up, TRUE)
    \/ \E socket \in Sockets, move \in EndingMoves :
          ChessMove(socket, "g1", move[1], move[2])
    \/ \E socket \in Sockets : ChessMove(socket, "g2", <<6, 4>>, <<5, 4>>)
    \/ \E i \in 1..MaxPending, ok \in BOOLEAN : UpdateChessGameDone(i, ok)

SpecEnding == InitEnding /\ [][NextEnding]_vars

-----------------------------------------------------------------------------
(* Malformed: Play of the opening, with the clients disconnecting and       *)
(* sending moves whose from is not a pair of integers and invitations       *)
(* without a payload.                                                       *)

NextMalformed ==
    \/ \E socket \in Sockets : Disconnect(socket)
    \/ \E socket \in Sockets, move \in OpeningMoves :
          ChessMove(socket, "g1", move[1], move[2])
    \/ \E i \in 1..MaxPending, ok \in BOOLEAN : UpdateChessGameDone(i, ok)
    \/ \E socket \in Sockets, gameId \in GameIds, from \in MalformedSquares,
          throwMode \in BOOLEAN :
          ChessMoveMalformed(socket, gameId, from, throwMode)
    \/ \E socket \in Sockets : ChessInviteMalformed(socket)

SpecMalformed == InitPlay /\ [][NextMalformed]_vars

-----------------------------------------------------------------------------
(* Validator: calls of isValidMove on boards that the games above do not    *)
(* reach.  A board holds the piece to move on the from square, at most one  *)
(* piece on the to square and at most one piece on a square next to the    *)
(* from square; the to square ranges over the board and just past its      *)
(* edges.                                                                  *)

Squares == (0..7) \X (0..7)

CallFrom == { <<6, 4>>, <<1, 4>>, <<4, 3>>, <<8, 4>> }

CallTo == Squares \cup { <<-1, 4>>, <<8, 4>>, <<4, -1>>, <<4, 8>> }

\* The squares of the board next to a square.
Neighbours(square) ==
    { n \in Squares : n # square /\ abs(n[1] - square[1]) <= 1 /\ abs(n[2] - square[2]) <= 1 }

EmptyBoard == [row \in 0..7 |-> [col \in 0..7 |-> null]]

\* board[row][col] = piece, for a square of the board and a piece.
place(board, square, piece) ==
    IF square \in Squares /\ piece # null
    THEN [board EXCEPT ![square[1]][square[2]] = piece]
    ELSE board

CallGame(turn, piece, from, to, targetPiece, other, otherPiece) ==
    [ whitePlayer |-> "alice",
      blackPlayer |-> "bob",
      currentTurn |-> turn,
      board       |-> place(place(place(EmptyBoard, other, otherPiece), to, targetPiece),
                            from, piece),
      gameStatus  |-> "active",
      moveHistory |-> <<>> ]

InitValidator ==
    /\ activeUsers = <<>>
    /\ closed = {}
    /\ chessGames = <<>>
    /\ db = <<>>
    /\ pending = <<>>
    /\ clock = 0
    /\ joins = 0
    /\ accepted = [g \in GameIds |-> 0]
    /\ invites = {}
    /\ sent = <<>>
    /\ last = [op |-> "start", socket |-> undefined, gameId |-> undefined, result |-> "ok"]
    /\ running = TRUE
    /\ \E turn \in {"white", "black"}, from \in CallFrom, to \in CallTo,
          piece \in WhitePieces \cup BlackPieces \cup {null},
          targetPiece \in {null, "N", "n"}, otherPiece \in {null, "N", "n"} :
          \E other \in Neighbours(from) :
             call = [ game     |-> CallGame(turn, piece, from, to, targetPiece, other, otherPiece),
                      from     |-> from,
                      to       |-> to,
                      returned |-> FALSE,
                      result   |-> FALSE,
                      made     |-> FALSE,
                      after    |-> CallGame(turn, piece, from, to, targetPiece, other,
                                            otherPiece) ]

\* The call returns.
IsValidMoveCall ==
    /\ ~call.returned
    /\ call' = [call EXCEPT !.returned = TRUE,
                            !.result = isValidMove(call.game, call.from, call.to)]
    /\ UNCHANGED <<activeUsers, closed, chessGames, db, pending, clock, joins, accepted,
                   invites, sent, last, running>>

\* if (isValidMove(game, data.from, data.to)) makeMove(game, data.from, data.to)
MakeMoveCall ==
    /\ call.returned /\ call.result
    /\ ~call.made
    /\ call' = [call EXCEPT !.made = TRUE,
                            !.after = makeMove(call.game, call.from, call.to, clock)]
    /\ UNCHANGED <<activeUsers, closed, chessGames, db, pending, clock, joins, accepted,
                   invites, sent, last, running>>

NextValidator == IsValidMoveCall \/ MakeMoveCall

SpecValidator == InitValidator /\ [][NextValidator]_vars

-----------------------------------------------------------------------------
(* PathClear: calls of isPathClear as isValidMove makes them for a rook, a  *)
(* bishop or a queen: from and to on the board, in one row, one column or   *)
(* on one diagonal.  The board holds the piece on the from square and at    *)
(* most one more piece, on the line or on the to square.  The loop runs one *)
(* iteration per step.                                                      *)

PathFrom == { <<0, 0>>, <<0, 7>>, <<7, 0>>, <<7, 7>>, <<4, 3>> }

\* The squares that isValidMove passes on with a from square: rowDiff or
\* colDiff is 0, or rowDiff equals colDiff.
PathTo(from) ==
    { to \in Squares : \/ to[1] = from[1]
                       \/ to[2] = from[2]
                       \/ abs(to[1] - from[1]) = abs(to[2] - from[2]) }

\* toRow > fromRow ? 1 : toRow < fromRow ? -1 : 0, with a zero lost.
stepNeverZero(fromCoordinate, toCoordinate) ==
    IF toCoordinate > fromCoordinate THEN 1 ELSE -1

\* toRow > fromRow ? 1 : toRow < fromRow ? -1 : 0
step(fromCoordinate, toCoordinate) ==
    IF toCoordinate > fromCoordinate THEN 1
    ELSE IF toCoordinate < fromCoordinate THEN -1 ELSE 0

\* The number of king steps between two squares.
distance(a, b) ==
    IF abs(a[1] - b[1]) > abs(a[2] - b[2]) THEN abs(a[1] - b[1]) ELSE abs(a[2] - b[2])

InitPathClear ==
    /\ activeUsers = <<>>
    /\ closed = {}
    /\ chessGames = <<>>
    /\ db = <<>>
    /\ pending = <<>>
    /\ clock = 0
    /\ joins = 0
    /\ accepted = [g \in GameIds |-> 0]
    /\ invites = {}
    /\ sent = <<>>
    /\ last = [op |-> "start", socket |-> undefined, gameId |-> undefined, result |-> "ok"]
    /\ running = TRUE
    /\ \E from \in PathFrom : \E to \in PathTo(from) :
          \E other \in { square \in PathTo(from) : distance(from, square) <= distance(from, to) },
             otherPiece \in {null, "n"} :
             call = [ board      |-> place(place(EmptyBoard, other, otherPiece), from, "Q"),
                      from       |-> from,
                      to         |-> to,
                      state      |-> "called",
                      rowStep    |-> 0,
                      colStep    |-> 0,
                      current    |-> from,
                      reads      |-> {},
                      iterations |-> 0 ]

\* The function up to its loop: the steps and the first square.
IsPathClearEnter ==
    /\ call.state = "called"
    /\ LET rowStep == step(call.from[1], call.to[1])
           colStep == step(call.from[2], call.to[2])
       IN  call' = [call EXCEPT !.state   = "loop",
                                !.rowStep = rowStep,
                                !.colStep = colStep,
                                !.current = <<call.from[1] + rowStep, call.from[2] + colStep>>]
    /\ UNCHANGED <<activeUsers, closed, chessGames, db, pending, clock, joins, accepted,
                   invites, sent, last, running>>

\* The test of the while loop and, if it passes, one run of its body.  With
\* currentRow off the board, board[currentRow] is undefined and reading
\* [currentCol] of it throws; with currentCol alone off the board the square
\* read is undefined, which is not null.
IsPathClearLoop ==
    /\ call.state = "loop"
    /\ IF call.current # call.to
       THEN call' = [call EXCEPT
                       !.reads = @ \cup {call.current},
                       !.iterations = @ + 1,
                       !.state = IF call.current[1] \notin 0..7 THEN "threw"
                                 ELSE IF call.current[2] \notin 0..7 THEN "false"
                                 ELSE IF call.board[call.current[1]][call.current[2]] # null
                                 THEN "false"
                                 ELSE "loop",
                       !.current = <<call.current[1] + call.rowStep,
                                     call.current[2] + call.colStep>>]
       ELSE call' = [call EXCEPT !.state = "true"]
    /\ UNCHANGED <<activeUsers, closed, chessGames, db, pending, clock, joins, accepted,
                   invites, sent, last, running>>

NextPathClear == IsPathClearEnter \/ IsPathClearLoop

\* The call is not interrupted: the event loop runs it to its end.
SpecPathClear == InitPathClear /\ [][NextPathClear]_vars /\ WF_vars(NextPathClear)

-----------------------------------------------------------------------------
(* Properties *)

Games == DOMAIN chessGames

\* The queries db.updateChessGame of game g that are in flight: the 'chess
\* move' handlers of g that have not finished.
pendingUpdates(g) ==
    {i \in 1..Len(pending) : pending[i].kind = "updateChessGame" /\ pending[i].gameId = g}

isTerminal(game) == game.gameStatus # "active"

sameBoardTurnHistory(g) ==
    /\ chessGames'[g].board = chessGames[g].board
    /\ chessGames'[g].currentTurn = chessGames[g].currentTurn
    /\ chessGames'[g].moveHistory = chessGames[g].moveHistory

\* C1: once the status of a game is white_wins or black_wins, no step changes
\* its board, its turn or its move history.
C1_TerminalGameNeverMutated ==
    [][\A g \in Games : isTerminal(chessGames[g]) => sameBoardTurnHistory(g)]_vars

\* C2: once the status of a game is white_wins or black_wins, no step changes
\* the status.
C2_TerminalStatusAbsorbing ==
    [][\A g \in Games :
          isTerminal(chessGames[g]) => chessGames'[g].gameStatus = chessGames[g].gameStatus]_vars

participantToMove(game) ==
    IF game.currentTurn = "white" THEN game.whitePlayer ELSE game.blackPlayer

\* C3: a step changes the board, the turn or the history of a game only if it
\* handles a 'chess move' of that game sent by a socket whose joined identity
\* is the participant whose turn it is.
C3_OnlyParticipantToMoveMoves ==
    [][\A g \in Games :
          ~sameBoardTurnHistory(g) =>
              /\ last'.op = "chess move"
              /\ last'.gameId = g
              /\ mapGet(activeUsers, last'.socket) = participantToMove(chessGames[g])]_vars

\* C3 witness: a third identity has sent a move of a game and it was dropped
\* at the turn check.
C3_Witness ==
    /\ last.op = "chess move"
    /\ last.result = "not-your-turn"
    /\ mapGet(activeUsers, last.socket) \notin
          {chessGames[last.gameId].whitePlayer, chessGames[last.gameId].blackPlayer}

\* C4: the turn of a game is white after an even number of accepted moves and
\* black after an odd number, and a move that is not applied changes no turn.
C4_TurnAlternates ==
    /\ [](\A g \in Games :
             chessGames[g].currentTurn = IF accepted[g] % 2 = 0 THEN "white" ELSE "black")
    /\ [][(last'.op = "chess move" /\ last'.result # "applied") =>
             \A g \in Games : chessGames'[g].currentTurn = chessGames[g].currentTurn]_vars

\* C4 witness: a move has been rejected after three moves were accepted.
C4_Witness ==
    /\ last.op = "chess move"
    /\ last.result \in {"not-your-turn", "illegal-move"}
    /\ accepted[last.gameId] = 3
    /\ chessGames[last.gameId].currentTurn = "black"

isPrefix(s, t) == Len(s) <= Len(t) /\ SubSeq(t, 1, Len(s)) = s

\* C5: the history of a game is as long as the number of moves accepted, and
\* a step leaves it as it is or appends one record to it.
C5_HistoryAppendOnly ==
    /\ [](\A g \in Games : Len(chessGames[g].moveHistory) = accepted[g])
    /\ [][\A g \in Games :
             /\ isPrefix(chessGames[g].moveHistory, chessGames'[g].moveHistory)
             /\ Len(chessGames'[g].moveHistory) <= Len(chessGames[g].moveHistory) + 1
             /\ Len(chessGames'[g].moveHistory) - Len(chessGames[g].moveHistory)
                   = accepted'[g] - accepted[g]]_vars

\* C5 witness: a third move has just been appended to a history.
C5_Witness ==
    /\ last.op = "chess move"
    /\ last.result = "applied"
    /\ Len(chessGames[last.gameId].moveHistory) = 3

\* The game as it was before the last move of its history.
preMoveGame(game) ==
    LET h == game.moveHistory
        r == h[Len(h)]
    IN  [game EXCEPT
           !.board = [[game.board EXCEPT ![r.from[1]][r.from[2]] = r.piece]
                         EXCEPT ![r.to[1]][r.to[2]] = r.capturedPiece],
           !.currentTurn = IF @ = "white" THEN "black" ELSE "white",
           !.moveHistory = SubSeq(h, 1, Len(h) - 1)]

\* The last accepted move of game g has its durable write in flight.
lastMoveUnwritten(g) ==
    \E i \in pendingUpdates(g) : pending[i].gameData.moveHistory = chessGames[g].moveHistory

\* A move by the identity playerUsername passes the turn check and the
\* legality check against the game.
legalAgainst(game, playerUsername, move) ==
    /\ playerUsername # undefined
    /\ playerUsername = participantToMove(game)
    /\ isValidMove(game, move[1], move[2])

\* C6 as claimed: a move handled while the write of the last accepted move is
\* in flight is not applied if it is not legal against the board before that
\* move, so that exactly one of the two is applied.
C6_ExactlyOneApplied ==
    [][\A g \in Games, socket \in Sockets, move \in MoveInputs :
          ( /\ last'.op = "chess move" /\ last'.gameId = g /\ last'.socket = socket
            /\ lastMoveUnwritten(g)
            /\ ChessMove(socket, g, move[1], move[2])
            /\ ~legalAgainst(preMoveGame(chessGames[g]), mapGet(activeUsers, socket), move) )
          => last'.result # "applied"]_vars

\* C6 as amended: a move handled while the write of the last accepted move is
\* in flight is checked against the game as that move left it: it is applied,
\* after that move, exactly if it passes the turn check and the legality
\* check against that state, and changes nothing otherwise.
C6_CheckedAgainstAdvancedState ==
    [][\A g \in Games, socket \in Sockets, move \in MoveInputs :
          ( /\ last'.op = "chess move" /\ last'.gameId = g /\ last'.socket = socket
            /\ lastMoveUnwritten(g)
            /\ ChessMove(socket, g, move[1], move[2]) ) =>
              IF legalAgainst(chessGames[g], mapGet(activeUsers, socket), move)
              THEN /\ last'.result = "applied"
                   /\ chessGames'[g].moveHistory =
                         Append(chessGames[g].moveHistory,
                                [ from          |-> move[1],
                                  to            |-> move[2],
                                  piece         |-> chessGames[g].board[move[1][1]][move[1][2]],
                                  capturedPiece |-> chessGames[g].board[move[2][1]][move[2][2]],
                                  timestamp     |-> clock ])
              ELSE /\ last'.result # "applied"
                   /\ chessGames' = chessGames]_vars

\* C6 witness: a move has been applied while the write of the move before it
\* was in flight, and it was not legal against the board before that move.
C6_Witness ==
    /\ last.op = "chess move"
    /\ last.result = "applied"
    /\ Len(chessGames[last.gameId].moveHistory) >= 2
    /\ LET h == chessGames[last.gameId].moveHistory
           r == h[Len(h)]
       IN  ~legalAgainst(preMoveGame(preMoveGame(chessGames[last.gameId])),
                         mapGet(activeUsers, last.socket), <<r.from, r.to>>)
    /\ \E i, j \in pendingUpdates(last.gameId) :
          /\ pending[j].gameData.moveHistory = chessGames[last.gameId].moveHistory
          /\ pending[i].gameData.moveHistory = SubSeq(pending[j].gameData.moveHistory, 1,
                                                     Len(pending[j].gameData.moveHistory) - 1)

\* C7: at most one 'chess move' handler of a game is unfinished at a time.
C7_OneMoveHandlerAtATime ==
    \A g \in GameIds : Cardinality(pendingUpdates(g)) <= 1

\* C8: a step emits 'chess move made' only when it completes an update of
\* that game and leaves its row holding what that update wrote, and emits
\* 'chess game started' only when it inserts the row of that game.
C8_WriteBeforeBroadcast ==
    [][\A k \in 1..Len(sent') :
          /\ sent'[k].type = "chess move made" =>
                \E i \in pendingUpdates(sent'[k].gameId) :
                   /\ pending' = RemoveAt(pending, i)
                   /\ db'[sent'[k].gameId].move_history = pending[i].gameData.moveHistory
                   /\ db'[sent'[k].gameId].board_state = pending[i].gameData.boardState
                   /\ db'[sent'[k].gameId].current_turn = pending[i].gameData.currentTurn
          /\ sent'[k].type = "chess game started" =>
                /\ sent'[k].gameId \notin DOMAIN db
                /\ sent'[k].gameId \in DOMAIN db'
                /\ db'[sent'[k].gameId].board_state = sent'[k].gameState.board
                /\ db'[sent'[k].gameId].white_player = sent'[k].gameState.whitePlayer
                /\ db'[sent'[k].gameId].black_player = sent'[k].gameState.blackPlayer]_vars

\* C8 witness: 'chess move made' has just been sent for a move whose update
\* the row holds.
C8_Witness ==
    /\ last.op = "updateChessGame done"
    /\ last.result = "ok"
    /\ \E k \in 1..Len(sent) :
          /\ sent[k].type = "chess move made"
          /\ db[sent[k].gameId].move_history = sent[k].gameState.moveHistory
          /\ Len(sent[k].gameState.moveHistory) >= 1

\* C9: when 'chess move made' has just been sent, the durable row of the game
\* holds at least as many moves as the state the event carries.
C9_DurableAtLeastBroadcast ==
    \A k \in 1..Len(sent) :
       sent[k].type = "chess move made" =>
          Len(db[sent[k].gameId].move_history) >= Len(sent[k].gameState.moveHistory)

\* C10: with a database that never fails, whenever no update of a game is in
\* flight its durable row agrees with the game in memory on the board, the
\* turn, the status and the history.
C10_DurableAgreesWhenQuiet ==
    \A g \in Games :
       pendingUpdates(g) = {} =>
          /\ db[g].board_state = chessGames[g].board
          /\ db[g].current_turn = chessGames[g].currentTurn
          /\ db[g].game_status = chessGames[g].gameStatus
          /\ db[g].move_history = chessGames[g].moveHistory

-----------------------------------------------------------------------------
(* The invitation handshake *)

\* The socket has joined: activeUsers has an entry for it.
hasJoined(socket) == \E i \in 1..Len(activeUsers) : activeUsers[i].id = socket

\* The identity a joined socket is bound to.
identityOf(socket) ==
    activeUsers[CHOOSE i \in 1..Len(activeUsers) : activeUsers[i].id = socket].username

\* The identity has a channel: some entry of activeUsers names it.
hasChannel(username) == \E i \in 1..Len(activeUsers) : activeUsers[i].username = username

\* The step delivers an event of the type to the socket.
delivers(type, socketId) ==
    \E k \in 1..Len(sent') : sent'[k].type = type /\ sent'[k].to = socketId

\* C11: when the handler of an accepted invite-response for a gameId that has
\* no game resumes after its write, the game is registered under the gameId
\* as the new game of inviter (white) and responder (black), and 'chess game
\* started' carrying it is delivered to the responder and to the inviter.
C11_AcceptRegistersGame ==
    [][\A i \in 1..Len(pending) :
          ( /\ pending[i].kind = "createChessGame"
            /\ pending[i].gameId \notin Games
            /\ last'.op = "createChessGame done"
            /\ pending' = RemoveAt(pending, i) ) =>
              /\ pending[i].gameId \in DOMAIN chessGames'
              /\ chessGames'[pending[i].gameId] =
                     [ whitePlayer |-> pending[i].whitePlayer,
                       blackPlayer |-> pending[i].blackPlayer,
                       currentTurn |-> "white",
                       board       |-> InitialBoard,
                       gameStatus  |-> "active",
                       moveHistory |-> <<>> ]
              /\ delivers("chess game started", pending[i].socket)
              /\ delivers("chess game started", pending[i].inviterSocketId)]_vars

\* C12: an accept for a gameId whose game exists, at its handling and when
\* its INSERT has been answered, leaves the game and its row as they were and
\* sends no 'chess game started'.
C12_DuplicateAcceptRejected ==
    [][\A g \in Games :
          ( /\ last'.gameId = g
            /\ last'.op \in {"chess invite response", "createChessGame done"} ) =>
              /\ g \in DOMAIN chessGames'
              /\ chessGames'[g] = chessGames[g]
              /\ g \in DOMAIN db /\ db'[g] = db[g]
              /\ \A k \in 1..Len(sent') : sent'[k].type # "chess game started"]_vars

\* C12 witness: the INSERT of a second accept has failed for a game in which
\* a move has been made.
C12_Witness ==
    /\ last.op = "createChessGame done"
    /\ last.result = "error"
    /\ last.gameId \in Games
    /\ Len(chessGames[last.gameId].moveHistory) >= 1

\* C13: every registered game was proposed by an earlier 'chess invite' of
\* its id, sent by its white participant and delivered to its black one.
C13_GameOnlyFromInvite ==
    \A g \in Games :
       [gameId |-> g, from |-> chessGames[g].whitePlayer, to |-> chessGames[g].blackPlayer]
          \in invites

\* The state that an invite or a declined response must leave alone.
noStateCreated ==
    /\ chessGames' = chessGames
    /\ db' = db
    /\ pending' = pending

\* C14 as claimed: a response with accepted = false delivers 'chess invite
\* declined' to the channel of the inviter whenever the inviter has one, and
\* creates no state.
C14_DeclineDeliveredToInviter ==
    [][\A socket \in Sockets, inviterUsername \in Usernames, gameId \in GameIds :
          ( /\ last'.op = "chess invite response"
            /\ last'.socket = socket /\ last'.gameId = gameId
            /\ ChessInviteResponse(socket, inviterUsername, gameId, FALSE) ) =>
              /\ hasChannel(inviterUsername) =>
                     delivers("chess invite declined", findSocketId(activeUsers, inviterUsername))
              /\ noStateCreated]_vars

\* C14 as amended: a response with accepted = false delivers 'chess invite
\* declined' to the channel of the inviter exactly if the inviter has one and
\* it is not the channel the response came from, sends nothing else, and
\* creates no state.
C14_DeclineDeliveredToOtherChannel ==
    [][\A socket \in Sockets, inviterUsername \in Usernames, gameId \in GameIds :
          ( /\ last'.op = "chess invite response"
            /\ last'.socket = socket /\ last'.gameId = gameId
            /\ ChessInviteResponse(socket, inviterUsername, gameId, FALSE) ) =>
              /\ sent' = IF /\ hasChannel(inviterUsername)
                            /\ findSocketId(activeUsers, inviterUsername) # socket
                         THEN << [ type |-> "chess invite declined",
                                   to   |-> findSocketId(activeUsers, inviterUsername),
                                   from |-> IF hasJoined(socket) THEN identityOf(socket)
                                            ELSE undefined ] >>
                         ELSE <<>>
              /\ noStateCreated]_vars

\* C14 witness: a decline has been delivered while a game is registered.
C14_Witness ==
    /\ last.op = "chess invite response"
    /\ last.result = "declined"
    /\ Len(sent) = 1 /\ sent[1].type = "chess invite declined"
    /\ Games # {}

\* C15 as claimed: an invite is delivered to the channel of the target
\* whenever the target has one, sends nothing otherwise, and records nothing.
C15_InviteDeliveredToTarget ==
    [][\A socket \in Sockets, targetUsername \in Usernames, gameId \in GameIds :
          ( /\ last'.op = "chess invite"
            /\ last'.socket = socket /\ last'.gameId = gameId
            /\ ChessInvite(socket, targetUsername, gameId) ) =>
              /\ IF hasChannel(targetUsername)
                 THEN delivers("chess invite received",
                               findSocketId(activeUsers, targetUsername))
                 ELSE sent' = <<>>
              /\ noStateCreated]_vars

\* C15 as amended: an invite is delivered, with the identity of the inviter
\* and the gameId, to the channel of the target exactly if the sender has
\* joined and the target has a channel other than the sender's; otherwise
\* nothing is sent.  In both cases it records nothing.
C15_InviteDeliveredFromJoinedSender ==
    [][\A socket \in Sockets, targetUsername \in Usernames, gameId \in GameIds :
          ( /\ last'.op = "chess invite"
            /\ last'.socket = socket /\ last'.gameId = gameId
            /\ ChessInvite(socket, targetUsername, gameId) ) =>
              /\ sent' = IF /\ hasJoined(socket)
                            /\ hasChannel(targetUsername)
                            /\ findSocketId(activeUsers, targetUsername) # socket
                         THEN << [ type   |-> "chess invite received",
                                   to     |-> findSocketId(activeUsers, targetUsername),
                                   from   |-> identityOf(socket),
                                   gameId |-> gameId ] >>
                         ELSE <<>>
              /\ noStateCreated]_vars

\* C15 witness: an invite has been dropped, and before it one was delivered.
C15_Witness ==
    /\ last.op = "chess invite"
    /\ last.result = "dropped"
    /\ sent = <<>>
    /\ invites # {}

-----------------------------------------------------------------------------
(* Failures and rejections *)

\* C16: when the update of an accepted move fails, the handler sends nothing
\* and leaves the game in memory as it is, the move still in its history; and
\* every move applied, after a failed write too, has passed the turn check
\* and the legality check against the game in memory.
C16_WriteFailureSilentNoRollback ==
    /\ [][(last'.op = "updateChessGame done" /\ last'.result = "error") =>
             /\ sent' = <<>>
             /\ chessGames' = chessGames
             /\ db' = db
             /\ \E i \in pendingUpdates(last'.gameId) :
                   /\ pending' = RemoveAt(pending, i)
                   /\ Len(pending[i].gameData.moveHistory) >= 1
                   /\ isPrefix(pending[i].gameData.moveHistory,
                               chessGames'[last'.gameId].moveHistory)]_vars
    /\ [][\A g \in Games :
             (last'.op = "chess move" /\ last'.result = "applied" /\ last'.gameId = g) =>
                LET h == chessGames'[g].moveHistory
                    r == h[Len(h)]
                IN  legalAgainst(chessGames[g], mapGet(activeUsers, last'.socket),
                                 <<r.from, r.to>>)]_vars

\* C16 witness: a second move has been applied after the write of the first
\* failed: the row holds no move, and only the second write is in flight.
C16_Witness ==
    /\ last.op = "chess move"
    /\ last.result = "applied"
    /\ Len(chessGames[last.gameId].moveHistory) = 2
    /\ db[last.gameId].move_history = <<>>
    /\ Cardinality(pendingUpdates(last.gameId)) = 1

\* C17: a 'chess move' that is not applied (no such game or sender not
\* joined, not the sender's turn, illegal move) changes no game, issues no
\* write and sends nothing.
C17_RejectedMoveSilent ==
    [][(last'.op = "chess move" /\ last'.result # "applied") =>
          /\ last'.result \in {"no-game-or-player", "not-your-turn", "illegal-move"}
          /\ chessGames' = chessGames
          /\ db' = db
          /\ pending' = pending
          /\ sent' = <<>>]_vars

\* C17 witness: the participant to move has sent an illegal move of a game
\* in which a move has been made.
C17_Witness ==
    /\ last.op = "chess move"
    /\ last.result = "illegal-move"
    /\ Len(chessGames[last.gameId].moveHistory) >= 1
    /\ sent = <<>>

-----------------------------------------------------------------------------
(* The move validator *)

\* The call of isValidMove has returned true.
callAccepted == call.returned /\ call.result

\* The piece on the from square and the piece on the to square of the call.
callPiece ==
    IF call.from \in Squares THEN call.game.board[call.from[1]][call.from[2]] ELSE null

callTarget ==
    IF call.to \in Squares THEN call.game.board[call.to[1]][call.to[2]] ELSE null

callIsWhite == callPiece \in WhitePieces

rowDelta == call.to[1] - call.from[1]

colDelta == call.to[2] - call.from[2]

\* The row direction toward row 0 for a white piece, toward row 7 for a black.
forward == IF callIsWhite THEN -1 ELSE 1

\* The to square is empty, or holds a piece of the other colour.
targetIsOpposing ==
    /\ callTarget # null
    /\ (callTarget \in WhitePieces) # callIsWhite

sign(x) == IF x > 0 THEN 1 ELSE IF x < 0 THEN -1 ELSE 0

\* The squares strictly between the from and the to square of a move along a
\* row, a column or a diagonal.
squaresBetween ==
    LET n == IF abs(rowDelta) > abs(colDelta) THEN abs(rowDelta) ELSE abs(colDelta)
    IN  { <<call.from[1] + k * sign(rowDelta), call.from[2] + k * sign(colDelta)>> :
            k \in 1..(n - 1) }

isEmptySquare(square) == call.game.board[square[1]][square[2]] = null

\* C18: an accepted two-square straight pawn move starts on the starting
\* rank of its colour, goes forward, and has its intermediate square and its
\* destination empty.
C18_PawnDoubleStepNeedsClearPath ==
    ( /\ callAccepted
      /\ callPiece \in {"P", "p"}
      /\ colDelta = 0
      /\ abs(rowDelta) = 2 ) =>
        /\ call.from[1] = IF callIsWhite THEN 6 ELSE 1
        /\ rowDelta = 2 * forward
        /\ callTarget = null
        /\ isEmptySquare(<<call.from[1] + forward, call.from[2]>>)

\* C19: an accepted pawn move goes forward; it is one square straight, or two
\* squares straight from the starting rank, onto an empty square, or one
\* square diagonally onto a piece of the other colour.
C19_PawnMovesOnlyForward ==
    (callAccepted /\ callPiece \in {"P", "p"}) =>
        /\ rowDelta * forward > 0
        /\ \/ /\ colDelta = 0
              /\ callTarget = null
              /\ \/ rowDelta = forward
                 \/ /\ rowDelta = 2 * forward
                    /\ call.from[1] = IF callIsWhite THEN 6 ELSE 1
           \/ /\ abs(colDelta) = 1
              /\ rowDelta = forward
              /\ targetIsOpposing

\* C19 witness: a pawn has been allowed to capture diagonally.
C19_Witness ==
    /\ callAccepted
    /\ callPiece \in {"P", "p"}
    /\ abs(colDelta) = 1
    /\ targetIsOpposing

\* The move of the call runs along a row or a column, or along a diagonal.
alongLine == rowDelta = 0 \/ colDelta = 0

alongDiagonal == abs(rowDelta) = abs(colDelta)

slidingGeometry ==
    CASE callPiece \in {"R", "r"} -> alongLine
      [] callPiece \in {"B", "b"} -> alongDiagonal
      [] callPiece \in {"Q", "q"} -> alongLine \/ alongDiagonal
      [] OTHER -> FALSE

\* C20: a rook, bishop or queen move is accepted only if it runs along a line
\* that the piece may take and every square strictly between is empty; and
\* such a move of the colour to move, to a square of the board that is empty
\* or holds a piece of the other colour, is accepted.
C20_SlidingMovesNeedClearPath ==
    (call.returned /\ callPiece \in {"R", "r", "B", "b", "Q", "q"}) =>
        /\ call.result =>
              /\ slidingGeometry
              /\ \A square \in squaresBetween : isEmptySquare(square)
        /\ ( /\ call.to \in Squares
             /\ call.game.currentTurn = IF callIsWhite THEN "white" ELSE "black"
             /\ slidingGeometry
             /\ \A square \in squaresBetween : isEmptySquare(square)
             /\ callTarget = null \/ targetIsOpposing ) => call.result

\* C20 witness: a rook, bishop or queen move along its line has been refused
\* because a piece stands in between.
C20_Witness ==
    /\ call.returned /\ ~call.result
    /\ callPiece \in {"R", "r", "B", "b", "Q", "q"}
    /\ call.to \in Squares
    /\ call.game.currentTurn = IF callIsWhite THEN "white" ELSE "black"
    /\ slidingGeometry
    /\ callTarget = null
    /\ \E square \in squaresBetween : ~isEmptySquare(square)

\* The piece of the call belongs to the colour whose turn it is.
callOnTurn == call.game.currentTurn = IF callIsWhite THEN "white" ELSE "black"

\* The to square holds a piece of the colour of the piece that moves.
targetIsOwn ==
    /\ callTarget # null
    /\ (callTarget \in WhitePieces) = callIsWhite

\* The jumps of a knight and the steps of a king, as row and column differences.
KnightJumps ==
    { <<2, 1>>, <<2, -1>>, <<-2, 1>>, <<-2, -1>>, <<1, 2>>, <<1, -2>>, <<-1, 2>>, <<-1, -2>> }

KingSteps == (-1..1) \X (-1..1)

\* C21: whatever the piece and whatever else is on the board, a move whose
\* destination holds a piece of the colour of the moving piece is rejected.
C21_OwnPieceNeverCaptured ==
    ( /\ call.returned
      /\ call.from \in Squares /\ call.to \in Squares
      /\ callPiece # null
      /\ targetIsOwn ) => ~call.result

\* C21 witness: a knight or king move of the colour to move, right in its
\* geometry, has been refused because a piece of its colour stands on the
\* destination.
C21_Witness ==
    /\ call.returned /\ ~call.result
    /\ callOnTurn
    /\ \/ callPiece \in {"N", "n"} /\ <<rowDelta, colDelta>> \in KnightJumps
       \/ callPiece \in {"K", "k"} /\ <<rowDelta, colDelta>> \in KingSteps \ {<<0, 0>>}
    /\ targetIsOwn

\* C22: a move is accepted only if its from and its to square lie on the
\* board, the from square holds a piece, and that piece belongs to the colour
\* whose turn it is.
C22_AcceptedMoveOnBoardOwnTurn ==
    callAccepted =>
        /\ call.from \in Squares
        /\ call.to \in Squares
        /\ callPiece # null
        /\ callOnTurn

\* C22 witness: a move of a black piece on black's turn has been accepted.
C22_Witness ==
    /\ callAccepted
    /\ callPiece \in BlackPieces
    /\ call.game.currentTurn = "black"
    /\ callTarget = null

\* C23: a knight move of the colour to move, to a square of the board, is
\* accepted exactly when it is a knight's jump and the destination holds no
\* piece of its colour, whatever stands on the squares around; a king move is
\* accepted only if it goes at most one row and one column away, to a
\* square that holds no piece of its colour.
C23_KnightJumpsKingSteps ==
    /\ (call.returned /\ callPiece \in {"N", "n"}) =>
          /\ call.result => <<rowDelta, colDelta>> \in KnightJumps /\ ~targetIsOwn
          /\ ( /\ call.to \in Squares
               /\ callOnTurn
               /\ <<rowDelta, colDelta>> \in KnightJumps
               /\ ~targetIsOwn ) => call.result
    /\ (callAccepted /\ callPiece \in {"K", "k"}) =>
          /\ <<rowDelta, colDelta>> \in KingSteps
          /\ ~targetIsOwn

\* C23 witness: a knight's jump has been accepted with a piece standing on a
\* square next to the knight.
C23_Witness ==
    /\ callAccepted
    /\ callPiece \in {"N", "n"}
    /\ \E square \in Neighbours(call.from) : ~isEmptySquare(square)

\* The move record that the call of makeMove has appended.
callRecord == call.after.moveHistory[Len(call.after.moveHistory)]

\* C28: makeMove changes two squares of the board, the destination to the
\* piece that stood on the source and the source to empty, and leaves the
\* other 62 squares as they were; it appends one move record, which carries
\* the source, the destination, the piece moved and the piece that stood on
\* the destination before the move (null if it was empty).
C28_MakeMoveChangesTwoSquares ==
    call.made =>
        /\ call.from # call.to
        /\ call.after.board[call.to[1]][call.to[2]] = callPiece
        /\ call.after.board[call.from[1]][call.from[2]] = null
        /\ \A square \in Squares \ {call.from, call.to} :
              call.after.board[square[1]][square[2]] = call.game.board[square[1]][square[2]]
        /\ Len(call.after.moveHistory) = Len(call.game.moveHistory) + 1
        /\ callRecord.from = call.from
        /\ callRecord.to = call.to
        /\ callRecord.piece = callPiece
        /\ callRecord.capturedPiece = callTarget

\* C28 witness: a move that captures a piece has been made, with another
\* piece standing elsewhere on the board.
C28_Witness ==
    /\ call.made
    /\ callTarget # null
    /\ \E square \in Squares \ {call.from, call.to} : ~isEmptySquare(square)

-----------------------------------------------------------------------------
(* The end of a game *)

\* The 'chess move' handler that finishes in this step is the one of
\* pending[i]: the handler of game g whose update was in flight.
finishes(i) ==
    /\ last'.op = "updateChessGame done"
    /\ i \in pendingUpdates(last'.gameId)
    /\ pending' = RemoveAt(pending, i)

\* The move of the handler of pending[i], and the board it left.
movePlayed(i) ==
    pending[i].gameData.moveHistory[Len(pending[i].gameData.moveHistory)]

boardLeft(i) == pending[i].gameData.boardState

\* The move of the handler of pending[i] took the king of a colour and left
\* the king of the other colour on the board.
leavesWithout(i, king, otherKing) ==
    /\ movePlayed(i).capturedPiece = king
    /\ ~hasPiece(boardLeft(i), king)
    /\ hasPiece(boardLeft(i), otherKing)

gameEnded(events, gameId, winner) ==
    \E n \in 1..Len(events) :
       /\ events[n].type = "chess game ended"
       /\ events[n].gameId = gameId
       /\ events[n].winner = winner
       /\ events[n].reason = "checkmate"

\* C24: the handler of a move that leaves the board without the black king
\* sets the status of the game to white_wins and emits 'chess game ended'
\* with the white player as the winner and the reason 'checkmate'; without
\* the white king, black_wins and the black player.
C24_KingCaptureEndsGame ==
    [][\A i \in 1..Len(pending) : finishes(i) =>
          LET g == last'.gameId
          IN  /\ leavesWithout(i, "k", "K") =>
                    /\ chessGames'[g].gameStatus = "white_wins"
                    /\ gameEnded(sent', g, chessGames[g].whitePlayer)
              /\ leavesWithout(i, "K", "k") =>
                    /\ chessGames'[g].gameStatus = "black_wins"
                    /\ gameEnded(sent', g, chessGames[g].blackPlayer)]_vars

\* C25: the game state that 'chess move made' carries for a move that took a
\* king has the status white_wins or black_wins.
C25_BroadcastStateAlreadyTerminal ==
    [][\A i \in 1..Len(pending) :
          (finishes(i) /\ movePlayed(i).capturedPiece \in {"K", "k"}) =>
             \A n \in 1..Len(sent') :
                sent'[n].type = "chess move made" => isTerminal(sent'[n].gameState)]_vars

bothKings(game) == hasPiece(game.board, "K") /\ hasPiece(game.board, "k")

\* C26: a step changes the status of a registered game only if it is the end
\* of a 'chess move' handler of that game whose move was accepted and
\* written, where checkGameEnd found a king missing; no other handler
\* (join, disconnect, invite, invite response, a rejected move, a move of
\* another game) changes it or removes the game; and the status of a game
\* with both kings on the board is active.
C26_StatusLeavesActiveOnlyByKingCheck ==
    [][/\ \A g \in Games :
             /\ g \in DOMAIN chessGames'
             /\ chessGames'[g].gameStatus # chessGames[g].gameStatus =>
                   /\ last'.op = "updateChessGame done"
                   /\ last'.gameId = g
                   /\ last'.result = "ok"
                   /\ Len(chessGames[g].moveHistory) >= 1
                   /\ ~bothKings(chessGames[g])
                   /\ chessGames'[g].gameStatus \in {"white_wins", "black_wins"}
       /\ \A g \in DOMAIN chessGames' :
             chessGames'[g].gameStatus # "active" => ~bothKings(chessGames'[g])]_vars

\* C26 witness: game g1 has been won by white, and since then game g2 has
\* been created and a move of g2 accepted, g1 still white_wins.
C26_Witness ==
    /\ "g1" \in Games /\ "g2" \in Games
    /\ chessGames["g1"].gameStatus = "white_wins"
    /\ chessGames["g2"].gameStatus = "active"
    /\ last.op = "chess move" /\ last.gameId = "g2" /\ last.result = "applied"

\* C27: a step of a handler of one game id (an invitation response, the
\* creation of the game, a move accepted or rejected, the end of a move's
\* handler) leaves every registered game of another id registered, with the
\* same board, turn, status, history and players, however the handlers of
\* the two games interleave.
C27_OtherGamesUntouched ==
    [][\A g \in Games :
          last'.gameId # g =>
             /\ g \in DOMAIN chessGames'
             /\ chessGames'[g] = chessGames[g]]_vars

\* C27 witness: a move of g1 has been applied while g2 is registered with a
\* move of its own, the handler of that move of g2 not yet finished.
C27_Witness ==
    /\ last.op = "chess move" /\ last.gameId = "g1" /\ last.result = "applied"
    /\ "g2" \in Games
    /\ Len(chessGames["g2"].moveHistory) = 1
    /\ pendingUpdates("g2") # {}

-----------------------------------------------------------------------------
(* Disconnecting and joining again *)

\* C30: a disconnect leaves every game registered as it is (board, turn,
\* status, history, players), its row and the writes in flight too; and a
\* move of a game sent by a socket that has joined as the participant to
\* move is never turned away as unknown or out of turn, whichever sockets
\* have disconnected before.
C30_DisconnectKeepsGames ==
    /\ [][last'.op = "disconnect" =>
             /\ chessGames' = chessGames
             /\ db' = db
             /\ pending' = pending]_vars
    /\ [][\A g \in Games :
             ( /\ last'.op = "chess move"
               /\ last'.gameId = g
               /\ mapGet(activeUsers, last'.socket) = participantToMove(chessGames[g]) ) =>
                 last'.result \in {"applied", "illegal-move"}]_vars

\* C30 witness: alice's socket s1 has disconnected, alice has joined again
\* on s3, and a move she sent from s3 has been applied.
C30_Witness ==
    /\ "s1" \in closed
    /\ last.op = "chess move" /\ last.result = "applied" /\ last.socket = "s3"
    /\ mapGet(activeUsers, "s3") = "alice"
    /\ chessGames[last.gameId].whitePlayer = "alice"
    /\ chessGames[last.gameId].currentTurn = "black"

-----------------------------------------------------------------------------
(* Malformed payloads *)

\* C29: no event ends the process: after every step the server is running,
\* and an event whose handler threw has changed no game, no row and no
\* query in flight.
C29_NoEventFatal ==
    [][/\ running'
       /\ last'.result = "threw" =>
             /\ chessGames' = chessGames
             /\ db' = db
             /\ pending' = pending]_vars

-----------------------------------------------------------------------------
(* Null moves and the conservation of pieces *)

\* C37: a move whose from square is its to square is never accepted, whatever
\* the piece, the turn and the rest of the board; so the board after an
\* accepted move differs from the board before it.
C37_NullMoveRejected ==
    /\ (call.returned /\ call.from = call.to) => ~call.result
    /\ call.made => call.after.board # call.game.board

\* C37 witness: a rook, queen or king of the colour to move has been refused
\* a move from its square to the same square.
C37_Witness ==
    /\ call.returned /\ ~call.result
    /\ call.from = call.to
    /\ callPiece \in {"R", "r", "Q", "q", "K", "k"}
    /\ callOnTurn

\* The number of squares of a board that hold a given piece.
count(board, piece) == Cardinality({ square \in Squares : board[square[1]][square[2]] = piece })

countOf(board, pieces) ==
    Cardinality({ square \in Squares : board[square[1]][square[2]] \in pieces })

\* The pieces of the colour of the piece that moves, and of the other colour.
callOwnPieces == IF callIsWhite THEN WhitePieces ELSE BlackPieces

callOtherPieces == IF callIsWhite THEN BlackPieces ELSE WhitePieces

\* C36: makeMove of an accepted move creates no piece and changes no piece
\* into another: no piece is more numerous after the move than before, the
\* pieces of the mover's colour are as many of each kind as before, and the
\* pieces of the other colour are as many or one fewer, the one that stood
\* on the destination.
C36_PiecesConserved ==
    call.made =>
        /\ \A piece \in callOwnPieces :
              count(call.after.board, piece) = count(call.game.board, piece)
        /\ \A piece \in callOtherPieces :
              count(call.after.board, piece) =
                 count(call.game.board, piece) - (IF callTarget = piece THEN 1 ELSE 0)
        /\ countOf(call.after.board, callOtherPieces) >=
              countOf(call.game.board, callOtherPieces) - 1
        /\ callTarget # null => callTarget \in callOtherPieces

\* C36 witness: a pawn has taken a piece of the other colour, with a third
\* piece on the board.
C36_Witness ==
    /\ call.made
    /\ callPiece \in {"P", "p"}
    /\ callTarget \in callOtherPieces
    /\ \E square \in Squares \ {call.from, call.to} : ~isEmptySquare(square)

-----------------------------------------------------------------------------
(* The loop of isPathClear *)

\* C38: a call of isPathClear with from and to on the board and in one row,
\* one column or on one diagonal, from equal to to included, reads squares
\* of the board only, never throws, comes one square nearer to the to square
\* with every iteration, so that it runs at most six of them, and returns.
C38_PathLoopTerminatesInBounds ==
    /\ [](/\ call.state # "threw"
          /\ call.reads \subseteq Squares
          /\ call.to \notin call.reads
          /\ call.iterations <= 6
          /\ call.state = "loop" =>
                /\ call.current \in Squares
                /\ distance(call.current, call.to) + call.iterations =
                      IF call.from = call.to THEN 0 ELSE distance(call.from, call.to) - 1)
    /\ <>(call.state \in {"true", "false"})

\* C38 witness: a call along a diagonal of seven squares has returned true
\* after six iterations, a piece standing on the to square.
C38_Witness ==
    /\ call.state = "true"
    /\ call.iterations = 6
    /\ call.from[1] # call.to[1] /\ call.from[2] # call.to[2]
    /\ call.board[call.to[1]][call.to[2]] # null

-----------------------------------------------------------------------------
(* What the notifications carry and whom they reach *)

\* C32: the game state that 'chess move made' carries at the end of a move's
\* handler is the state right after that move: the history and the turn that
\* the handler passed to its write, the move being the last of the history.
C32_BroadcastStateOfOwnMove ==
    [][\A i \in 1..Len(pending) : finishes(i) =>
          \A n \in 1..Len(sent') :
             sent'[n].type = "chess move made" =>
                /\ sent'[n].gameState.moveHistory = pending[i].gameData.moveHistory
                /\ sent'[n].gameState.currentTurn = pending[i].gameData.currentTurn
                /\ sent'[n].gameState.board = pending[i].gameData.boardState]_vars

\* C34: 'chess game ended' is emitted at most once for a game.  The status of
\* a game leaves active in the step that emits the event and in no other, so
\* the event is emitted a second time exactly if it is emitted for a game
\* whose status is white_wins or black_wins already.
C34_GameEndedOnce ==
    [][\A n \in 1..Len(sent') :
          sent'[n].type = "chess game ended" =>
             ~isTerminal(chessGames[sent'[n].gameId])]_vars

\* C35: a response with accepted = true emits no 'chess invite declined',
\* whether or not the socket it comes from has joined.
C35_AcceptNeverDeclines ==
    [][\A socket \in Sockets, inviterUsername \in Usernames, gameId \in GameIds :
          ( /\ last'.op = "chess invite response"
            /\ last'.socket = socket /\ last'.gameId = gameId
            /\ ChessInviteResponse(socket, inviterUsername, gameId, TRUE) ) =>
              \A n \in 1..Len(sent') : sent'[n].type # "chess invite declined"]_vars

\* C33: the white and the black player of every registered game are two
\* different identities.
C33_PlayersDiffer ==
    \A g \in Games : chessGames[g].whitePlayer # chessGames[g].blackPlayer

\* C31: events addressed to an identity go to the channel on which it joined
\* most recently.  Right after a 'join' has been handled the socket that
\* joined is the most recently joined channel of its identity: an invitation,
\* a decline or a move notification that the next step delivers to a channel
\* of that identity is delivered to that socket.
C31_LastJoinWins ==
    [][(last.op = "join" /\ last.result = "ok") =>
          \A n \in 1..Len(sent') :
             ( /\ sent'[n].type \in {"chess invite received", "chess invite declined",
                                      "chess move made"}
               /\ mapGet(activeUsers, sent'[n].to) = mapGet(activeUsers, last.socket) ) =>
                 sent'[n].to = last.socket]_vars

====
